---------------------------- MODULE Spec2Model ----------------------------
(***************************************************************************)
(* A model of xlsxObject: XlsxObject (XlsxObject.py) reads every worksheet *)
(* of a workbook into column-major lists after scanning row 1 and column A *)
(* for the populated extent, and SheetData (SheetData.py) holds one sheet  *)
(* with its row-major transpose.                                           *)
(*                                                                         *)
(* Cell values are opaque to the code, which only tests them against None. *)
(* A value is a tuple: <<>> is None, <<k, row, col>> is the content of the *)
(* populated cell (row, col) of worksheet k, <<v>> a free scalar handed to *)
(* SheetData directly.  A Python string built by an f-string is the tuple  *)
(* of its parts: "Var3" is <<"Var", 3>>, the title "Sheet2" <<"Sheet", 2>>.*)
(* Python lists are sequences; list index i is sequence index i + 1.       *)
(***************************************************************************)
EXTENDS Integers, Sequences, FiniteSets

VARIABLES
    workbook,          \* self._workbook.worksheets: the loaded worksheets
    file_headers,      \* self._file_headers
    pc,                \* "new" before XlsxObject.__init__ has run, "ready" after
    sheet_names,       \* self.sheet_names
    sheet_col_count,   \* self.sheet_col_count
    sheet_row_count,   \* self.sheet_row_count
    sheet_headers,     \* self.sheet_headers
    sheet_data,        \* self.sheet_data
    item,              \* the key of the last __getitem__ call
    ret,               \* what the last __getitem__ call returned or raised
    sd_args,           \* the arguments of the last SheetData(...) call
    sd                 \* the SheetData object that call constructed

vars == <<workbook, file_headers, pc, sheet_names, sheet_col_count,
          sheet_row_count, sheet_headers, sheet_data, item, ret, sd_args, sd>>

xlsx_vars == <<workbook, file_headers, pc, sheet_names, sheet_col_count,
               sheet_row_count, sheet_headers, sheet_data>>

----------------------------------------------------------------------------
(* Bounds of the model. *)

MaxRows == 3          \* rows of a worksheet that may be populated
MaxCols == 3          \* columns of a worksheet that may be populated
MaxSheets == 2        \* worksheets of a workbook
MaxDataCols == 2      \* columns handed to SheetData directly
MaxDataLen == 3       \* length of a column handed to SheetData directly

----------------------------------------------------------------------------
(* Python and library primitives the code is written with. *)

None == <<>>

\* range(a, b) as the sequence a, a+1, ..., b-1
Range(a, b) == [k \in 1..(IF b > a THEN b - a ELSE 0) |-> a + k - 1]

\* [f(x) for x in s] is written [k \in 1..Len(s) |-> f(s[k])] where it is used.

\* openpyxl.utils.get_column_letter: 1 -> A, 26 -> Z, 27 -> AA, ...
\* A letter is its position 1..26 in the alphabet, a column name a sequence of letters.
RECURSIVE get_column_letter(_)
get_column_letter(i) ==
    IF i <= 26 THEN <<i>>
    ELSE get_column_letter((i - 1) \div 26) \o <<((i - 1) % 26) + 1>>

\* openpyxl's reading of the letters of a coordinate back into a column index
RECURSIVE column_index_from_string(_)
column_index_from_string(letters) ==
    IF Len(letters) = 0 THEN 0
    ELSE 26 * column_index_from_string(SubSeq(letters, 1, Len(letters) - 1))
         + letters[Len(letters)]

\* The content of a populated cell: distinct for every cell of every sheet.
CellContent(sheet, row, col) == <<sheet.title[2], row, col>>

\* sheet[f"{letters}{row}"].value: None for a cell that was never populated
CellValue(sheet, letters, row) ==
    LET col == column_index_from_string(letters)
    IN  IF <<row, col>> \in sheet.filled THEN CellContent(sheet, row, col) ELSE None


----------------------------------------------------------------------------
(* XlsxObject *)

\* _set_sheet_names: [sheet.title for sheet in worksheets]
set_sheet_names(worksheets) == [k \in 1..Len(worksheets) |-> worksheets[k].title]

\* The while loop of _set_column_length, entered with column_index
RECURSIVE column_scan(_, _)
column_scan(sheet, column_index) ==
    IF CellValue(sheet, get_column_letter(column_index), 1) = None
    THEN column_index - 1
    ELSE column_scan(sheet, column_index + 1)

\* A fencepost slip of the scan: the index of the empty cell itself is returned.
RECURSIVE column_scan_inclusive(_, _)
column_scan_inclusive(sheet, column_index) ==
    IF CellValue(sheet, get_column_letter(column_index), 1) = None
    THEN column_index
    ELSE column_scan_inclusive(sheet, column_index + 1)

set_column_length_inclusive(sheet) == column_scan_inclusive(sheet, 1)

\* _set_column_length(sheet, column_index=1)
set_column_length(sheet) == column_scan(sheet, 1)

\* The while loop of _set_row_length, entered with row_index; "A" is letter 1
RECURSIVE row_scan(_, _)
row_scan(sheet, row_index) ==
    IF CellValue(sheet, <<1>>, row_index) = None
    THEN row_index - 1
    ELSE row_scan(sheet, row_index + 1)

\* _set_row_length(sheet), with self._file_headers passed explicitly
set_row_length(sheet, headers) == row_scan(sheet, IF headers THEN 2 ELSE 1)

\* _count_sheet_rows: despite its name, the column length of every sheet
count_sheet_rows(worksheets) ==
    [k \in 1..Len(worksheets) |-> set_column_length(worksheets[k])]

\* _count_sheet_columns: despite its name, the row length of every sheet
count_sheet_columns(worksheets, headers) ==
    [k \in 1..Len(worksheets) |-> set_row_length(worksheets[k], headers)]

\* The header row read one column short, as the synthesized names are.
read_header_row_short(sheet, sheet_length) ==
    LET cols == Range(1, sheet_length)
    IN  [k \in 1..Len(cols) |-> CellValue(sheet, get_column_letter(cols[k]), 1)]

\* [sheet[f"{get_column_letter(i)}{1}"].value for i in range(1, sheet_length + 1)]
read_header_row(sheet, sheet_length) ==
    LET cols == Range(1, sheet_length + 1)
    IN  [k \in 1..Len(cols) |-> CellValue(sheet, get_column_letter(cols[k]), 1)]

\* [f"Var{i}" for i in range(1, sheet_length)]
synthesize_header(sheet_length) ==
    LET cols == Range(1, sheet_length)
    IN  [k \in 1..Len(cols) |-> <<"Var", cols[k]>>]

\* _set_sheet_header_list; zip(col_count, worksheets) pairs them by position
set_sheet_header_list(headers, col_count, worksheets) ==
    IF headers
    THEN [k \in 1..Len(worksheets) |-> read_header_row(worksheets[k], col_count[k])]
    ELSE [k \in 1..Len(col_count) |-> synthesize_header(col_count[k])]

\* One column of _set_data: the cells of column col_i over range(row_start, row_end)
read_column(sheet, col_i, row_start, row_end) ==
    LET rows == Range(row_start, row_end)
    IN  [k \in 1..Len(rows) |-> CellValue(sheet, get_column_letter(col_i), rows[k])]

\* _set_data that skips empty cells instead of keeping them.
set_data_skip_empty(sheet, headers, row_end, col_count) ==
    LET row_start == IF headers THEN 2 ELSE 1
        cols == Range(1, col_count + 1)
    IN  [k \in 1..Len(cols) |->
            SelectSeq(read_column(sheet, cols[k], row_start, row_end),
                      LAMBDA v : v # None)]

\* _set_data that reads one column short, as the synthesized names are.
set_data_cols_short(sheet, headers, row_end, col_count) ==
    LET row_start == IF headers THEN 2 ELSE 1
        cols == Range(1, col_count)
    IN  [k \in 1..Len(cols) |-> read_column(sheet, cols[k], row_start, row_end)]

\* _set_data(sheet, sheet_index), with row_end = self.sheet_row_count[sheet_index]
\* and col_count = self.sheet_col_count[sheet_index] passed explicitly
set_data(sheet, headers, row_end, col_count) ==
    LET row_start == IF headers THEN 2 ELSE 1
        cols == Range(1, col_count + 1)
    IN  [k \in 1..Len(cols) |-> read_column(sheet, cols[k], row_start, row_end)]

\* _set_sheet_data
set_sheet_data(worksheets, headers, row_count, col_count) ==
    [k \in 1..Len(worksheets) |->
        set_data(worksheets[k], headers, row_count[k], col_count[k])]

\* The keys __getitem__ is called with: [type, val]; val matters for int and bool.
IsInt(key) == key.type \in {"int", "bool"}       \* isinstance(item, int)

\* Python's list indexing sheet_data[i]: negative i counts from the end.
list_index(list, i) ==
    IF 0 <= i /\ i < Len(list) THEN [kind |-> "value", val |-> list[i + 1]]
    ELSE IF i < 0 /\ -Len(list) <= i
         THEN [kind |-> "value", val |-> list[Len(list) + i + 1]]
         ELSE [kind |-> "IndexError", val |-> <<>>]

\* __getitem__ without the isinstance test: the list takes a slice as well,
\* here the whole-list slice, and returns a list of sheets for it.
getitem_unchecked(data, key) ==
    IF IsInt(key) THEN list_index(data, key.val)
    ELSE IF key.type = "slice" THEN [kind |-> "value", val |-> data]
         ELSE [kind |-> "TypeError", val |-> <<>>]

\* __getitem__(item)
getitem(data, key) ==
    IF IsInt(key) THEN list_index(data, key.val)
    ELSE [kind |-> "TypeError", val |-> <<>>]

----------------------------------------------------------------------------
(* SheetData *)

\* miscSupports.flip_list: asserts that the sub lists share one length, then
\* transposes.  "raised" stands for the AssertionError.
flip_list(data) ==
    LET lengths == {Len(data[c]) : c \in 1..Len(data)}
    IN  IF Cardinality(lengths) # 1
        THEN [raised |-> TRUE, val |-> <<>>]
        ELSE LET n == Len(data[1])
             IN  [raised |-> FALSE,
                  val |-> [r \in 1..n |-> [c \in 1..Len(data) |-> data[c][r]]]]

\* SheetData.__init__ that keeps the data as it is when the transpose fails.
SheetData_keep_on_failure(sheet_name, sheet_headers_, data) ==
    LET flipped == flip_list(data)
        row_data == IF flipped.raised THEN data ELSE flipped.val
    IN  [name |-> sheet_name, header |-> sheet_headers_, column_data |-> data,
         row_data |-> row_data, col_count |-> Len(data), row_count |-> Len(row_data)]

\* SheetData.__init__ that takes the counts the wrong way round.
SheetData_counts_swapped(sheet_name, sheet_headers_, data) ==
    LET flipped == flip_list(data)
        row_data == IF flipped.raised THEN <<>> ELSE flipped.val
    IN  [name |-> sheet_name, header |-> sheet_headers_, column_data |-> data,
         row_data |-> row_data, col_count |-> Len(row_data), row_count |-> Len(data)]

\* SheetData.__init__(sheet_name, sheet_headers, data): the object it leaves
SheetData(sheet_name, sheet_headers_, data) ==
    LET flipped == flip_list(data)
        row_data == IF flipped.raised THEN <<>> ELSE flipped.val
    IN  [name |-> sheet_name, header |-> sheet_headers_, column_data |-> data,
         row_data |-> row_data, col_count |-> Len(data), row_count |-> Len(row_data)]

----------------------------------------------------------------------------
(* The workbooks, keys and column data the model runs on. *)

Coords == (1..MaxRows) \X (1..MaxCols)

Rect(rows, cols) == (1..rows) \X (1..cols)

Worksheet(k, filled) == [title |-> <<"Sheet", k>>, filled |-> filled]

\* One worksheet with any set of populated cells
FreeBooks == {<<Worksheet(1, f)>> : f \in SUBSET Coords}

\* Up to MaxSheets worksheets, each a populated rectangle anchored at A1
Rects == {Rect(r, c) : r \in 0..MaxRows, c \in 0..MaxCols}

PoolBooks ==
    UNION {{[k \in 1..n |-> Worksheet(k, f[k])] : f \in [1..n -> Rects]} :
           n \in 0..MaxSheets}

Workbooks == FreeBooks \cup PoolBooks

Keys ==
    {[type |-> "int", val |-> i] : i \in (0 - MaxSheets - 1)..MaxSheets}
    \cup {[type |-> "bool", val |-> b] : b \in {0, 1}}
    \cup {[type |-> t, val |-> 0] : t \in {"str", "float", "slice", "NoneType"}}

DataVals == {<<1>>, <<2>>}

Columns == UNION {[1..n -> DataVals] : n \in 0..MaxDataLen}

DataInputs == UNION {[1..c -> Columns] : c \in 0..MaxDataCols}

NameInputs == {<<"Sheet", 1>>, <<"Data">>}

HeaderInputs == {<<>>, << <<"A">> >>, << <<"A">>, <<"B">> >>}

NoArgs == [called |-> FALSE, name |-> <<>>, header |-> <<>>, data |-> <<>>]

NoSheetData ==
    [name |-> <<>>, header |-> <<>>, column_data |-> <<>>, row_data |-> <<>>,
     col_count |-> 0, row_count |-> 0]

----------------------------------------------------------------------------
(* The state machine. *)

\* Nothing is extracted, indexed or built before XlsxObject(...) has run.
Fresh ==
    /\ pc = "new"
    /\ sheet_names = <<>>
    /\ sheet_col_count = <<>>
    /\ sheet_row_count = <<>>
    /\ sheet_headers = <<>>
    /\ sheet_data = <<>>
    /\ item = [type |-> "none", val |-> 0]
    /\ ret = [kind |-> "none", val |-> <<>>]
    /\ sd_args = NoArgs
    /\ sd = NoSheetData

\* Before XlsxObject(read_file, file_headers): the workbook load_workbook will
\* return and the flag the caller passes are fixed.
Init ==
    /\ workbook \in Workbooks
    /\ file_headers \in BOOLEAN
    /\ Fresh

\* XlsxObject.__init__
XlsxObjectInit ==
    /\ pc = "new"
    /\ pc' = "ready"
    /\ LET col_count == count_sheet_rows(workbook)
           row_count == count_sheet_columns(workbook, file_headers)
       IN  /\ sheet_names' = set_sheet_names(workbook)
           /\ sheet_col_count' = col_count
           /\ sheet_row_count' = row_count
           /\ sheet_headers' = set_sheet_header_list(file_headers, col_count, workbook)
           /\ sheet_data' = set_sheet_data(workbook, file_headers, row_count, col_count)
    /\ UNCHANGED <<workbook, file_headers, item, ret, sd_args, sd>>

\* XlsxObject.__getitem__(item), called on the constructed object
GetItem ==
    /\ pc = "ready"
    /\ \E key \in Keys :
          /\ item' = key
          /\ ret' = getitem(sheet_data, key)
    /\ UNCHANGED <<xlsx_vars, sd_args, sd>>

\* SheetData(sheet_name, sheet_headers, data); one object is followed, so the
\* constructor runs once
NewSheetData(sheet_name, sheet_headers_, data) ==
    /\ sd_args' = [called |-> TRUE, name |-> sheet_name,
                   header |-> sheet_headers_, data |-> data]
    /\ sd' = SheetData(sheet_name, sheet_headers_, data)
    /\ UNCHANGED <<xlsx_vars, item, ret>>

\* A caller builds the SheetData of one extracted sheet of the workbook.
SheetDataOfSheet ==
    /\ pc = "ready"
    /\ ~sd_args.called
    /\ \E k \in 1..Len(sheet_data) :
          NewSheetData(sheet_names[k], sheet_headers[k], sheet_data[k])

\* A caller builds a SheetData from column data of its own.
SheetDataOfInput ==
    /\ ~sd_args.called
    /\ \E n \in NameInputs, h \in HeaderInputs, d \in DataInputs :
          NewSheetData(n, h, d)

\* Extraction: a workbook is read and a SheetData is built from one of its sheets.
Next == XlsxObjectInit \/ SheetDataOfSheet

Spec == Init /\ [][Next]_vars

\* Indexing: a workbook of several sheets is read and then indexed.
InitIndex ==
    /\ workbook \in PoolBooks
    /\ file_headers \in BOOLEAN
    /\ Fresh

NextIndex == XlsxObjectInit \/ GetItem

SpecIndex == InitIndex /\ [][NextIndex]_vars

\* SheetData on its own: no workbook is opened.
InitSheetData ==
    /\ workbook = <<>>
    /\ file_headers = TRUE
    /\ Fresh

NextSheetData == SheetDataOfInput

SpecSheetData == InitSheetData /\ [][NextSheetData]_vars

----------------------------------------------------------------------------
(* What the properties below say of a worksheet, read off its populated    *)
(* cells directly, not through the extraction code.                        *)

Populated(sheet, row, col) == <<row, col>> \in sheet.filled

\* The value a reader of the cell sees
Verbatim(sheet, row, col) ==
    IF Populated(sheet, row, col) THEN CellContent(sheet, row, col) ELSE None

Ready == pc = "ready"

Sheets == 1..Len(workbook)

\* The first row that holds data
StartRow == IF file_headers THEN 2 ELSE 1

\* The sheet's populated region is exactly cols columns by rows data rows, under
\* the header row when there is one; a region of no rows at all has no columns.
IsRectangle(sheet, cols, rows) ==
    /\ StartRow - 1 + rows >= 1
    /\ sheet.filled = Rect(StartRow - 1 + rows, cols)

\* All columns of data have length n
Uniform(data, n) == \A c \in 1..Len(data) : Len(data[c]) = n

Ragged(data) == \E c1, c2 \in 1..Len(data) : Len(data[c1]) # Len(data[c2])

\* The SheetData object followed was built from extracted sheet k of the workbook.
BuiltFromSheet(k) ==
    /\ Ready
    /\ sd_args.called
    /\ k \in 1..Len(sheet_names)
    /\ sd_args.name = sheet_names[k]

----------------------------------------------------------------------------
(* The properties. *)

\* C1: for a worksheet whose populated region is a rectangle of C >= 1 columns
\* and R >= 0 data rows (plus the header row when headers are on), columnData has
\* exactly C entries of length R each, and columnData[c][r] is the cell at column
\* c+1 and data row r: no data row, the last one included, is left out.
C1_AllDataRowsExtracted ==
    Ready =>
        \A s \in Sheets : \A C \in 1..MaxCols : \A R \in 0..MaxRows :
            IsRectangle(workbook[s], C, R) =>
                /\ Len(sheet_data[s]) = C
                /\ \A c \in 1..Len(sheet_data[s]) :
                      /\ Len(sheet_data[s][c]) = R
                      /\ \A r \in 1..Len(sheet_data[s][c]) :
                            sheet_data[s][c][r]
                                = Verbatim(workbook[s], StartRow - 1 + r, c)

\* C2: with headers disabled, the header sequence of every worksheet is exactly
\* Var1 .. VarN for its detected column count N.
C2_SynthesizedHeaderComplete ==
    (Ready /\ ~file_headers) =>
        \A s \in Sheets :
            sheet_headers[s] = [i \in 1..sheet_col_count[s] |-> <<"Var", i>>]

\* C3: with headers enabled, every worksheet's header sequence is as long as its
\* detected column count, and header[i] is the verbatim value of row 1, column i+1.
C3_HeaderFromRowOne ==
    (Ready /\ file_headers) =>
        /\ Len(sheet_headers) = Len(workbook)
        /\ \A s \in Sheets :
              /\ Len(sheet_headers[s]) = sheet_col_count[s]
              /\ \A i \in 1..sheet_col_count[s] :
                    /\ Populated(workbook[s], 1, i)
                    /\ sheet_headers[s][i] = Verbatim(workbook[s], 1, i)

C3_Witness ==
    /\ Ready
    /\ file_headers
    /\ \E s \in Sheets : sheet_col_count[s] >= 2

\* C4: a SheetData built from at least one column, all of length L, has exactly L
\* rows (rowCount = len(rowData) = L), each of length columnCount, and
\* rowData[r][c] = columnData[c][r].
C4_Transpose ==
    (sd_args.called /\ Len(sd_args.data) >= 1) =>
        \A L \in 0..(MaxDataLen + 1) :
            Uniform(sd_args.data, L) =>
                /\ Len(sd.row_data) = L
                /\ sd.row_count = L
                /\ sd.col_count = Len(sd_args.data)
                /\ \A r \in 1..Len(sd.row_data) :
                      /\ Len(sd.row_data[r]) = sd.col_count
                      /\ \A c \in 1..Len(sd.row_data[r]) :
                            sd.row_data[r][c] = sd.column_data[c][r]

C4_Witness ==
    /\ sd_args.called
    /\ Len(sd_args.data) = 2
    /\ Uniform(sd_args.data, 2)
    /\ sd_args.data[1][1] # sd_args.data[1][2]
    /\ sd_args.data[1] # sd_args.data[2]
    /\ Len(sd.row_data) = 2

\* C5: a SheetData built from columns of differing lengths is constructed all the
\* same: rowData is empty, rowCount is 0, and name, header, columnData and
\* columnCount are those of the inputs.
C5_RaggedDegrades ==
    (sd_args.called /\ Ragged(sd_args.data)) =>
        /\ sd.row_data = <<>>
        /\ sd.row_count = 0
        /\ sd.name = sd_args.name
        /\ sd.header = sd_args.header
        /\ sd.column_data = sd_args.data
        /\ sd.col_count = Len(sd_args.data)

\* the columns [[1,2],[3]] of the specification's example, in shape
C5_Witness ==
    /\ sd_args.called
    /\ Len(sd_args.data) = 2
    /\ Len(sd_args.data[1]) = 2
    /\ Len(sd_args.data[2]) = 1
    /\ sd.row_data = <<>>

\* C6: with headers enabled, a worksheet with C >= 1 header cells in row 1 and an
\* empty A2 is extracted as exactly C empty columns, and the SheetData built from
\* them has rowData = [] and rowCount = 0.
C6_HeaderOnlySheet ==
    (Ready /\ file_headers) =>
        \A s \in Sheets : \A C \in 1..MaxCols :
            ( /\ \A c \in 1..C : Populated(workbook[s], 1, c)
              /\ ~Populated(workbook[s], 1, C + 1)
              /\ ~Populated(workbook[s], 2, 1) ) =>
                /\ sheet_data[s] = [c \in 1..C |-> <<>>]
                /\ BuiltFromSheet(s) =>
                      /\ sd.column_data = [c \in 1..C |-> <<>>]
                      /\ sd.row_data = <<>>
                      /\ sd.row_count = 0

C6_Witness ==
    /\ file_headers
    /\ \E s \in Sheets :
          /\ BuiltFromSheet(s)
          /\ Populated(workbook[s], 1, 1)
          /\ Populated(workbook[s], 1, 2)
          /\ ~Populated(workbook[s], 2, 1)
          /\ Len(sd.column_data) = 2

\* C7: every sheet's recorded row count is the number of data rows extracted, the
\* length of each of its column sequences, and its recorded column count is the
\* number of entries of its columnData.
C7_CountsMatchExtraction ==
    Ready =>
        \A s \in Sheets :
            /\ sheet_col_count[s] = Len(sheet_data[s])
            /\ \A c \in 1..Len(sheet_data[s]) :
                  Len(sheet_data[s][c]) = sheet_row_count[s]

\* C8, in every state: the sheet collection is in worksheet order, an integer key
\* i that is a position returns the data of the sheet at position i, and a
\* string, float, slice or None key fails with TypeError and returns no sheet.
C8_IndexingState ==
    Ready =>
        /\ Len(sheet_data) = Len(workbook)
        /\ sheet_names = [k \in Sheets |-> workbook[k].title]
        /\ (item.type = "int" /\ 0 <= item.val /\ item.val < Len(sheet_data)) =>
              /\ ret = [kind |-> "value", val |-> sheet_data[item.val + 1]]
              /\ \A c \in 1..Len(ret.val) : \A r \in 1..Len(ret.val[c]) :
                    \/ ret.val[c][r] = None
                    \/ <<"Sheet", ret.val[c][r][1]>> = sheet_names[item.val + 1]
        /\ item.type \in {"str", "float", "slice", "NoneType"} =>
              ret = [kind |-> "TypeError", val |-> <<>>]

\* C8: indexing by position returns that sheet's data, a non-integer key fails
\* with TypeError, and no call of __getitem__ changes the workbook object.
C8_Indexing ==
    /\ []C8_IndexingState
    /\ [][(item' # item \/ ret' # ret) => UNCHANGED xlsx_vars]_vars

C8_Witness ==
    /\ Ready
    /\ Len(sheet_data) = 2
    /\ item = [type |-> "int", val |-> 1]
    /\ ret.kind = "value"
    /\ Len(ret.val) >= 1
    /\ Len(ret.val[1]) >= 1
    /\ ret.val # sheet_data[1]

C10_ExtractionRectangular ==
    Ready =>
        \A s \in Sheets :
            /\ \A c1, c2 \in 1..Len(sheet_data[s]) :
                  Len(sheet_data[s][c1]) = Len(sheet_data[s][c2])
            /\ \A c \in 1..Len(sheet_data[s]) :
                  \A k \in 1..Len(sheet_data[s][c]) :
                      sheet_data[s][c][k]
                          = Verbatim(workbook[s], StartRow - 1 + k, c)
            /\ BuiltFromSheet(s) => ~Ragged(sd.column_data)

C10_Witness ==
    /\ Ready
    /\ \E s \in Sheets :
          /\ Len(sheet_data[s]) >= 2
          /\ Len(sheet_data[s][1]) >= 1
          /\ \E k \in 1..Len(sheet_data[s][2]) : sheet_data[s][2][k] = None
          /\ \E k \in 1..Len(sheet_data[s][2]) : sheet_data[s][2][k] # None

=============================================================================
